---- MODULE Spec2Model ----
(***************************************************************************)
(* Model of ESocketS.socket_server.Socket (src/ESocketS/socket_server.py): *)
(* three persistent stage threads (_recv, _accept, _handle_connects), the  *)
(* transient threads spawned for the per-connection receive callback, one  *)
(* application thread calling the public operations, and the peers.        *)
(***************************************************************************)
EXTENDS Integers, Sequences, FiniteSets, TLC

\* ------------------------------------------------------------------ bounds
NumConns == 1       \* connections the peers open during a run
NumWorkers == 2     \* transient threads alive at the same time
MaxAppOps == 3      \* public operations the application thread calls after start()
MaxSends == 2       \* payloads the peers send during a run
MaxFaults == 1      \* injected stage faults (accept() error) during a run
NumSenders == 2     \* concurrent callers of send_raw
SendConns == 2      \* connections the callers of send_raw write to
PayloadLen == 2     \* bytes in one payload
AdmitConns == 2     \* connections the peers open in the runs of admission

\* ----------------------------------------------------------------- threads
\* _serve_threads, plus the application thread and the transient threads
T_app == 0
T_recv == 1
T_accept == 2
T_handle_connects == 3

Stages == {T_recv, T_accept, T_handle_connects}
NoConn == 0

VARIABLES
    _started,        \* Socket._started
    _stop_signal,    \* Socket._stop_signal
    clients,         \* Socket.clients: the connections in the registry
    _epoll,          \* self._epoll: the connections registered in the selector
    _accept_queue,   \* Socket._accept_queue
    _stop_events,    \* self._stop_events: stage -> is the event set
    client_callback, \* self._run_in_subthread['client_callback']
    _server_socket,  \* "init", "listening", "shutdown", "closed"
    sock,            \* per connection: st (unborn/open/closed), input (none/data/eof/err)
    pc,              \* thread -> position in its code
    cur,             \* thread -> the connection argument of the call it runs
    events,          \* the events select() returned to _recv, not yet handled
    diter,           \* thread -> the dict iterator of disconnect('all'): pos, size
    ret,             \* thread -> where the public call it runs returns to
    send_lock,       \* _ClientInfo.send_lock: the holder, or 0
    sends,           \* send_raw calls: caller -> conn, data, sent, state
    wire,            \* connection -> the bytes written to it, in order
    lock_order,      \* the callers in the order they acquired send_lock
    h                \* history: what has been called, fired and raised

vars == <<_started, _stop_signal, clients, _epoll, _accept_queue, _stop_events,
          client_callback, _server_socket, sock, pc, cur, events, diter, ret,
          send_lock, sends, wire, lock_order, h>>

engine == <<_started, _stop_signal, clients, _epoll, _accept_queue, _stop_events,
            client_callback, _server_socket, sock, pc, cur, events, diter, ret, h>>
sender == <<send_lock, sends, wire, lock_order>>

Threads == DOMAIN pc
Workers == Threads \ ({T_app} \cup Stages)
Conns == DOMAIN sock

\* ---------------------------------------------------------------- helpers
Min(S) == CHOOSE x \in S : \A y \in S : x <= y

IsClosed(c) == sock[c].st = "closed"

\* The connections the application holds a reference to: on_connect(conn) or
\* get_clients() gave it.
Known == {h.admitted[i] : i \in 1..Len(h.admitted)}

\* A thread is a transient one that is not running.
IdleWorkers == {w \in Workers : pc[w] = "idle"}

\* selectors: a closed socket has fileno() -1, and is looked up by identity among
\* the registered keys; one that is not found there is a ValueError.
register_exc(reg, ep, c, silent) ==
    IF c \notin reg THEN "KeyError"                     \* client = self.clients[conn]
    ELSE IF c \in ep THEN (IF silent THEN "none" ELSE "KeyError")
    ELSE IF IsClosed(c) THEN "ValueError"
    ELSE "none"

register_set(reg, ep, c) ==
    IF c \in reg /\ c \notin ep /\ ~IsClosed(c) THEN ep \cup {c} ELSE ep

unregister_exc(ep, c, silent) ==
    IF c \in ep THEN "none"
    ELSE IF IsClosed(c) THEN "ValueError"
    ELSE IF silent THEN "none" ELSE "KeyError"

unregister_set(ep, c) == ep \ {c}

\* ------------------------------------------------------------------- Init
Constructed(conns, workers) ==
    /\ _started = FALSE
    /\ _stop_signal = FALSE
    /\ clients = {}
    /\ _epoll = {}
    /\ _accept_queue = <<>>
    /\ _stop_events = [s \in Stages |-> FALSE]
    /\ client_callback = TRUE
    /\ _server_socket = "init"
    /\ sock = [c \in conns |-> [st |-> "unborn", input |-> "none"]]
    /\ pc = [t \in {T_app} \cup Stages \cup workers |->
                IF t \in Stages THEN "unstarted" ELSE "idle"]
    /\ cur = [t \in {T_app} \cup Stages \cup workers |-> NoConn]
    /\ events = {}
    /\ diter = [t \in {T_app} \cup Stages \cup workers |-> [pos |-> 0, size |-> 0]]
    /\ ret = [t \in {T_app} \cup Stages \cup workers |-> "idle"]
    /\ send_lock = 0
    /\ sends = <<>>
    /\ wire = [c \in conns |-> <<>>]
    /\ lock_order = <<>>
    /\ h = [ops |-> 0, sent |-> 0, faults |-> 0,
            on_start |-> 0, launched |-> 0,
            admitted |-> <<>>, registered |-> {}, on_recv |-> {},
            on_disconnect |-> [c \in conns |-> 0],
            on_abnormal_disconnect |-> [c \in conns |-> 0],
            on_connect |-> <<>>,
            on_stop |-> <<>>, closes |-> 0,
            fault |-> [s \in Stages |-> "none"],
            stop |-> [t \in {T_app} \cup Stages \cup workers |-> "none"],
            last |-> [op |-> "none", conn |-> NoConn, silent |-> FALSE, exc |-> "none"]]

Init == Constructed(1..NumConns, 4..(3 + NumWorkers))

\* The application thread is between two calls and may make another.
AppReady == pc[T_app] = "idle" /\ h.ops < MaxAppOps

Called(op, c, silent, exc) ==
    [h EXCEPT !.ops = @ + 1,
              !.last = [op |-> op, conn |-> c, silent |-> silent, exc |-> exc]]

\* ------------------------------------------------------------------ start
\* A start() that does not look at _started.
StartUnchecked ==
    /\ AppReady
    /\ _started' = TRUE
    /\ _server_socket' = "listening"
    /\ pc' = [t \in Threads |-> IF t \in Stages THEN "loop" ELSE pc[t]]
    /\ h' = [Called("start", NoConn, FALSE, "none")
                EXCEPT !.on_start = @ + 1, !.launched = @ + 3]
    /\ UNCHANGED <<_stop_signal, clients, _epoll, _accept_queue, _stop_events,
                   client_callback, sock, cur, events, diter, ret, sender>>

Start ==
    /\ AppReady
    /\ IF _started
       THEN /\ h' = Called("start", NoConn, FALSE, "OSError")
            /\ UNCHANGED <<_started, _server_socket, pc>>
       ELSE /\ _started' = TRUE
            /\ _server_socket' = "listening"
            /\ pc' = [t \in Threads |-> IF t \in Stages THEN "loop" ELSE pc[t]]
            /\ h' = [Called("start", NoConn, FALSE, "none")
                        EXCEPT !.on_start = @ + 1, !.launched = @ + 3]
    /\ UNCHANGED <<_stop_signal, clients, _epoll, _accept_queue, _stop_events,
                   client_callback, sock, cur, events, diter, ret, sender>>

RunInSubthread(choice) ==
    /\ AppReady
    /\ client_callback' = choice
    /\ h' = Called("run_in_subthread", NoConn, FALSE, "none")
    /\ UNCHANGED <<_started, _stop_signal, clients, _epoll, _accept_queue,
                   _stop_events, _server_socket, sock, pc, cur, events, diter, ret,
                   sender>>

\* A stage's loop is left by an uncaught error: its finally clause runs next.
StageFault(s, exc) == [h EXCEPT !.fault[s] = exc]

\* while not self._stop_signal, of each of the three stages: the loop ends
StageExit(s) ==
    /\ pc[s] = "loop"
    /\ _stop_signal
    /\ pc' = [pc EXCEPT ![s] = "finally"]
    /\ UNCHANGED <<_started, _stop_signal, clients, _epoll, _accept_queue,
                   _stop_events, client_callback, _server_socket, sock, cur, events,
                   diter, ret, h, sender>>

\* finally: the completion event is set, and a stage that was not told to stop
\* calls stop() itself
StageFinally(s) ==
    /\ pc[s] = "finally"
    /\ _stop_events' = [_stop_events EXCEPT ![s] = TRUE]
    /\ IF _stop_signal
       THEN /\ pc' = [pc EXCEPT ![s] = "dead"]
            /\ ret' = ret
       ELSE /\ pc' = [pc EXCEPT ![s] = "stop"]
            /\ ret' = [ret EXCEPT ![s] = "dead"]
    /\ UNCHANGED <<_started, _stop_signal, clients, _epoll, _accept_queue,
                   client_callback, _server_socket, sock, cur, events, diter, h,
                   sender>>

\* ---------------------------------------------------------------- _accept
Unborn == {c \in Conns : sock[c].st = "unborn"}

\* One turn of the loop: server_epoll.select(block_time), then accept() gives a
\* peer's connection, which is put on the queue (a turn in which accept() would
\* block changes nothing)
AcceptConn ==
    /\ pc[T_accept] = "loop"
    /\ ~_stop_signal
    /\ Unborn # {}
    /\ sock' = [sock EXCEPT ![Min(Unborn)].st = "open"]
    /\ _accept_queue' = Append(_accept_queue, Min(Unborn))
    /\ UNCHANGED <<_started, _stop_signal, clients, _epoll, _stop_events,
                   client_callback, _server_socket, pc, cur, events, diter, ret, h,
                   sender>>

\* accept() raises an error that is not BlockingIOError
AcceptError ==
    /\ pc[T_accept] = "loop"
    /\ ~_stop_signal
    /\ h.faults < MaxFaults
    /\ pc' = [pc EXCEPT ![T_accept] = "finally"]
    /\ h' = [StageFault(T_accept, "OSError") EXCEPT !.faults = @ + 1]
    /\ UNCHANGED <<_started, _stop_signal, clients, _epoll, _accept_queue,
                   _stop_events, client_callback, _server_socket, sock, cur, events,
                   diter, ret, sender>>

\* ------------------------------------------------------- _handle_connects
\* A queue that hands out what was put last.
QueueGetLast(q) == q[Len(q)]

\* queue.Queue is first in, first out: get() gives what was put first.
QueueGet(q) == Head(q)

\* One turn of the loop in which self._accept_queue.get(timeout=self.block_time)
\* gives a connection (a turn that ends in queue.Empty changes nothing)
HandleConnectsGet ==
    /\ pc[T_handle_connects] = "loop"
    /\ ~_stop_signal
    /\ _accept_queue # <<>>
    /\ pc' = [pc EXCEPT ![T_handle_connects] = "admit"]
    /\ cur' = [cur EXCEPT ![T_handle_connects] = QueueGet(_accept_queue)]
    /\ _accept_queue' = Tail(_accept_queue)
    /\ UNCHANGED <<_started, _stop_signal, clients, _epoll, _stop_events,
                   client_callback, _server_socket, sock, events, diter, ret, h,
                   sender>>

\* Admission that arms the connection it admits.
AdmitEpollArmed(ep, c) == ep \cup {c}

\* The epoll membership admission leaves a new connection with: it calls no
\* register.
AdmitEpoll(ep, c) == ep

\* conn.setblocking(False); self.clients[conn] = client
HandleConnectsAdmit ==
    /\ pc[T_handle_connects] = "admit"
    /\ clients' = clients \cup {cur[T_handle_connects]}
    /\ _epoll' = AdmitEpoll(_epoll, cur[T_handle_connects])
    /\ h' = [h EXCEPT !.admitted = Append(@, cur[T_handle_connects])]
    /\ pc' = [pc EXCEPT ![T_handle_connects] = "on_connect"]
    /\ UNCHANGED <<_started, _stop_signal, _accept_queue, _stop_events,
                   client_callback, _server_socket, sock, cur, events, diter, ret,
                   sender>>

\* self._call_on_function(self.on_connect, (conn, )), inline: the application's
\* hook returns, or calls register(conn) and returns or lets its error out
OnConnect ==
    /\ pc[T_handle_connects] = "on_connect"
    /\ LET c == cur[T_handle_connects] IN
       \/ /\ pc' = [pc EXCEPT ![T_handle_connects] = "loop"]
          /\ h' = [h EXCEPT !.on_connect = Append(@, c)]
          /\ _epoll' = _epoll
       \/ LET exc == register_exc(clients, _epoll, c, FALSE) IN
          /\ _epoll' = register_set(clients, _epoll, c)
          /\ IF exc = "none"
             THEN /\ pc' = [pc EXCEPT ![T_handle_connects] = "loop"]
                  /\ h' = [h EXCEPT !.registered = @ \cup {c},
                                    !.on_connect = Append(@, c)]
             ELSE /\ pc' = [pc EXCEPT ![T_handle_connects] = "finally"]
                  /\ h' = [StageFault(T_handle_connects, exc)
                              EXCEPT !.registered = @ \cup {c},
                                     !.on_connect = Append(@, c)]
    /\ cur' = [cur EXCEPT ![T_handle_connects] = NoConn]
    /\ UNCHANGED <<_started, _stop_signal, clients, _accept_queue, _stop_events,
                   client_callback, _server_socket, sock, events, diter, ret,
                   sender>>

\* ------------------------------------------------------------------ _recv
\* while not self._stop_signal: the loop goes on to select()
RecvLoop ==
    /\ pc[T_recv] = "loop"
    /\ ~_stop_signal
    /\ pc' = [pc EXCEPT ![T_recv] = "select"]
    /\ UNCHANGED <<_started, _stop_signal, clients, _epoll, _accept_queue,
                   _stop_events, client_callback, _server_socket, sock, cur, events,
                   diter, ret, h, sender>>

\* What epoll reports: registered, open, and a read would not block.
Ready == {c \in _epoll : sock[c].st = "open" /\ sock[c].input # "none"}

\* events = self._epoll.select(self.block_time)
RecvSelect ==
    /\ pc[T_recv] = "select"
    /\ events' = Ready
    /\ pc' = [pc EXCEPT ![T_recv] = IF Ready = {} THEN "loop" ELSE "events"]
    /\ UNCHANGED <<_started, _stop_signal, clients, _epoll, _accept_queue,
                   _stop_events, client_callback, _server_socket, sock, cur, diter,
                   ret, h, sender>>

\* Where _recv goes on after one event: the next event, or the loop's test.
AfterEvent(ev) == IF ev = {} THEN "loop" ELSE "events"

\* The watch set once the loop has taken the event of c, before it dispatches.
DispatchEpoll(ep, c) == unregister_set(ep, c)

\* for key, mask in events: self.unregister(key.fileobj), then the callback on a
\* new thread or inline
RecvDispatch(c) ==
    /\ pc[T_recv] = "events"
    /\ c \in events
    /\ LET exc == unregister_exc(_epoll, c, FALSE) IN
       IF exc # "none"
       THEN /\ pc' = [pc EXCEPT ![T_recv] = "finally"]
            /\ h' = StageFault(T_recv, exc)
            /\ events' = {}
            /\ UNCHANGED <<_epoll, cur>>
       ELSE /\ _epoll' = DispatchEpoll(_epoll, c)
            /\ events' = events \ {c}
            /\ h' = h
            /\ IF client_callback
               THEN /\ IdleWorkers # {}
                    /\ pc' = [pc EXCEPT ![Min(IdleWorkers)] = "recv_raw",
                                        ![T_recv] = AfterEvent(events')]
                    /\ cur' = [cur EXCEPT ![Min(IdleWorkers)] = c]
               ELSE /\ pc' = [pc EXCEPT ![T_recv] = "recv_raw"]
                    /\ cur' = [cur EXCEPT ![T_recv] = c]
    /\ UNCHANGED <<_started, _stop_signal, clients, _accept_queue, _stop_events,
                   client_callback, _server_socket, sock, diter, ret, sender>>

\* ------------------------------------------- recv, the bound callback
Receivers == Workers \cup {T_recv}

\* The threads that run recv(c) now.
InFlight(c) ==
    {t \in Receivers :
        cur[t] = c /\ pc[t] \in {"recv_raw", "on_recv", "recv_ret"}}

\* recv_raw: one conn.recv(size), classified
recv_raw(c) ==
    IF IsClosed(c) THEN "ClientAbnormalDisconnect"       \* EBADF
    ELSE CASE sock[c].input = "data" -> "data"
           [] sock[c].input = "eof" -> "ClientDisconnect"
           [] sock[c].input = "err" -> "ClientAbnormalDisconnect"
           [] OTHER -> "WouldBlock"

\* What recv does with the outcome of recv_raw: the hook it goes on to call, or
\* the error that leaves it. err[0] of an exception is a TypeError.
recv_handler(outcome) ==
    CASE outcome = "data" -> "on_recv"
      [] outcome = "ClientDisconnect" -> "on_disconnect"
      [] outcome = "ClientAbnormalDisconnect" -> "TypeError"
      [] OTHER -> outcome

\* recv is over in thread t: a transient thread ends, and _recv goes on with its
\* events, or leaves its loop when an error exc came out of the callback.
RecvEnd(t, exc, hh) ==
    /\ cur' = [cur EXCEPT ![t] = NoConn]
    /\ IF t # T_recv
       THEN /\ pc' = [pc EXCEPT ![t] = "idle"]
            /\ events' = events
            /\ h' = hh
       ELSE IF exc = "none"
       THEN /\ pc' = [pc EXCEPT ![t] = AfterEvent(events)]
            /\ events' = events
            /\ h' = hh
       ELSE /\ pc' = [pc EXCEPT ![t] = "finally"]
            /\ events' = {}
            /\ h' = [hh EXCEPT !.fault[T_recv] = exc]

\* data = self.recv_raw(conn, size) and the except clauses: on data the on_recv
\* hook is next; on a clean disconnect on_disconnect (inline, the default hook
\* that does nothing) is called and recv returns; anything else leaves recv
RecvRaw(t) ==
    /\ pc[t] = "recv_raw"
    /\ LET c == cur[t]
           next == recv_handler(recv_raw(c)) IN
       CASE next = "on_recv" ->
              /\ pc' = [pc EXCEPT ![t] = "on_recv"]
              /\ sock' = [sock EXCEPT ![c].input = "none"]
              /\ UNCHANGED <<cur, events, h>>
         [] next = "on_disconnect" ->
              /\ RecvEnd(t, "none", [h EXCEPT !.on_disconnect[c] = @ + 1])
              /\ sock' = sock
         [] OTHER ->
              /\ RecvEnd(t, next, h)
              /\ sock' = sock
    /\ UNCHANGED <<_started, _stop_signal, clients, _epoll, _accept_queue,
                   _stop_events, client_callback, _server_socket, diter, ret,
                   sender>>

\* self._call_on_function(self.on_recv, (conn, data)), inline: the application's
\* hook returns at once (and recv with it), or re-arms the connection with
\* register(conn) and goes on
OnRecv(t) ==
    /\ pc[t] = "on_recv"
    /\ LET c == cur[t]
           fired == [h EXCEPT !.on_recv = @ \cup {c}] IN
       \/ /\ RecvEnd(t, "none", fired)
          /\ _epoll' = _epoll
       \/ LET exc == register_exc(clients, _epoll, c, FALSE)
              called == [fired EXCEPT !.registered = @ \cup {c}] IN
          /\ _epoll' = register_set(clients, _epoll, c)
          /\ IF exc = "none"
             THEN /\ pc' = [pc EXCEPT ![t] = "recv_ret"]
                  /\ h' = called
                  /\ UNCHANGED <<cur, events>>
             ELSE RecvEnd(t, exc, called)
    /\ UNCHANGED <<_started, _stop_signal, clients, _accept_queue, _stop_events,
                   client_callback, _server_socket, sock, diter, ret, sender>>

\* The hook that re-armed the connection returns, and recv returns the data.
RecvReturn(t) ==
    /\ pc[t] = "recv_ret"
    /\ RecvEnd(t, "none", h)
    /\ UNCHANGED <<_started, _stop_signal, clients, _epoll, _accept_queue,
                   _stop_events, client_callback, _server_socket, sock, diter, ret,
                   sender>>

\* ------------------------------------------------------------------ peers
PeerSend(c) ==
    /\ sock[c].st = "open"
    /\ sock[c].input = "none"
    /\ h.sent < MaxSends
    /\ sock' = [sock EXCEPT ![c].input = "data"]
    /\ h' = [h EXCEPT !.sent = @ + 1]
    /\ UNCHANGED <<_started, _stop_signal, clients, _epoll, _accept_queue,
                   _stop_events, client_callback, _server_socket, pc, cur, events,
                   diter, ret, sender>>

\* The peer closes (the next read is empty) or resets (the next read fails).
PeerClose(c, how) ==
    /\ sock[c].st = "open"
    /\ \/ how = "eof" /\ sock[c].input = "none"
       \/ how = "err" /\ sock[c].input \in {"none", "data"}
    /\ sock' = [sock EXCEPT ![c].input = how]
    /\ UNCHANGED <<_started, _stop_signal, clients, _epoll, _accept_queue,
                   _stop_events, client_callback, _server_socket, pc, cur, events,
                   diter, ret, h, sender>>

\* ------------------------------------------------------------------- stop
\* The reason a caller of stop() gives: a stage's finally clause names the
\* stage, the application and its hooks give the default ''.
Reason(t) ==
    IF t \in Stages /\ ret[t] = "dead"
    THEN CASE t = T_recv -> "Error in _recv"
           [] t = T_accept -> "Error in _accept"
           [] OTHER -> "Error in _handle_connects"
    ELSE ""

\* The stop() of thread t was called by a hook that runs inline in a stage's
\* loop: an error that leaves stop() leaves the hook and the loop too.
InStageLoop(t) == t \in Stages /\ ret[t] # "dead"

\* An error leaves stop() in thread t.
StopRaise(t, exc) ==
    /\ pc' = [pc EXCEPT ![t] = IF InStageLoop(t) THEN "finally" ELSE ret[t]]
    /\ h' = IF InStageLoop(t)
            THEN [h EXCEPT !.stop[t] = "raised", !.fault[t] = exc]
            ELSE [h EXCEPT !.stop[t] = "raised",
                           !.last.exc = IF t = T_app THEN exc ELSE @]

\* if not self._started: raise; self._stop_signal = True; and the iterator of
\* for client in self.clients.keys() is made
StopBegin(t) ==
    /\ pc[t] = "stop"
    /\ IF ~_started
       THEN /\ StopRaise(t, "OSError")
            /\ UNCHANGED <<_stop_signal, diter>>
       ELSE /\ _stop_signal' = TRUE
            /\ diter' = [diter EXCEPT ![t] = [pos |-> 0, size |-> Cardinality(clients)]]
            /\ pc' = [pc EXCEPT ![t] = "da_next"]
            /\ h' = [h EXCEPT !.stop[t] = "running"]
    /\ UNCHANGED <<_started, clients, _epoll, _accept_queue, _stop_events,
                   client_callback, _server_socket, sock, cur, events, ret, sender>>

\* The keys a dict iterator at position pos has not passed: the registry keeps
\* its keys in the order of admission, which is the order of the identities.
KeysAfter(pos) == {c \in clients : c > pos}

\* One step of for client in clients: the size check of the dict iterator, then
\* self.unregister(client, silent=True)
DisconnectAllNext(t) ==
    /\ pc[t] = "da_next"
    /\ IF Cardinality(clients) # diter[t].size
       THEN /\ StopRaise(t, "RuntimeError")
            /\ UNCHANGED <<_epoll, cur, diter>>
       ELSE IF KeysAfter(diter[t].pos) = {}
       THEN /\ pc' = [pc EXCEPT ![t] = "da_clear"]
            /\ UNCHANGED <<_epoll, cur, diter, h>>
       ELSE LET c == Min(KeysAfter(diter[t].pos))
                exc == unregister_exc(_epoll, c, TRUE) IN
            IF exc # "none"
            THEN /\ StopRaise(t, exc)
                 /\ UNCHANGED <<_epoll, cur, diter>>
            ELSE /\ _epoll' = unregister_set(_epoll, c)
                 /\ cur' = [cur EXCEPT ![t] = c]
                 /\ diter' = [diter EXCEPT ![t].pos = c]
                 /\ pc' = [pc EXCEPT ![t] = "da_close"]
                 /\ h' = h
    /\ UNCHANGED <<_started, _stop_signal, clients, _accept_queue, _stop_events,
                   client_callback, _server_socket, sock, events, ret, sender>>

\* client.shutdown(socket.SHUT_RDWR), its error passed over; client.close()
DisconnectAllClose(t) ==
    /\ pc[t] = "da_close"
    /\ sock' = [sock EXCEPT ![cur[t]].st = "closed"]
    /\ cur' = [cur EXCEPT ![t] = NoConn]
    /\ pc' = [pc EXCEPT ![t] = "da_next"]
    /\ UNCHANGED <<_started, _stop_signal, clients, _epoll, _accept_queue,
                   _stop_events, client_callback, _server_socket, events, diter,
                   ret, h, sender>>

\* self.clients.clear()
DisconnectAllClear(t) ==
    /\ pc[t] = "da_clear"
    /\ clients' = {}
    /\ pc' = [pc EXCEPT ![t] = "stop_wait"]
    /\ UNCHANGED <<_started, _stop_signal, _epoll, _accept_queue, _stop_events,
                   client_callback, _server_socket, sock, cur, events, diter, ret,
                   h, sender>>

\* A stop() that does not wait for the admission stage.
StopWaitsForTwo == {T_recv, T_accept}

\* The events stop() has to see set before it goes on.
StopWaitsFor == Stages

\* for event in self._stop_events.values(): event.wait()
StopWait(t) ==
    /\ pc[t] = "stop_wait"
    /\ \A s \in StopWaitsFor : _stop_events[s]
    /\ pc' = [pc EXCEPT ![t] = "stop_shutdown"]
    /\ UNCHANGED <<_started, _stop_signal, clients, _epoll, _accept_queue,
                   _stop_events, client_callback, _server_socket, sock, cur, events,
                   diter, ret, h, sender>>

\* self._server_socket.shutdown(0): the listening socket stops listening; on a
\* socket that was shut down before the call fails with ENOTCONN, on a closed
\* one with EBADF, and the OSError leaves stop()
StopShutdown(t) ==
    /\ pc[t] = "stop_shutdown"
    /\ IF _server_socket # "listening"
       THEN /\ StopRaise(t, "OSError")
            /\ _server_socket' = _server_socket
       ELSE /\ pc' = [pc EXCEPT ![t] = "stop_close"]
            /\ _server_socket' = "shutdown"
            /\ h' = h
    /\ UNCHANGED <<_started, _stop_signal, clients, _epoll, _accept_queue,
                   _stop_events, client_callback, sock, cur, events, diter, ret,
                   sender>>

\* self._server_socket.close(); self._call_on_function(self.on_stop, (reason,)),
\* inline; stop() returns
StopClose(t) ==
    /\ pc[t] = "stop_close"
    /\ _server_socket' = "closed"
    /\ h' = [h EXCEPT !.on_stop = Append(@, Reason(t)),
                      !.closes = @ + 1,
                      !.stop[t] = "returned"]
    /\ pc' = [pc EXCEPT ![t] = ret[t]]
    /\ UNCHANGED <<_started, _stop_signal, clients, _epoll, _accept_queue,
                   _stop_events, client_callback, sock, cur, events, diter, ret,
                   sender>>

\* ---------------------------------------------- the application's calls
AppStop ==
    /\ AppReady
    /\ pc' = [pc EXCEPT ![T_app] = "stop"]
    /\ ret' = [ret EXCEPT ![T_app] = "idle"]
    /\ h' = Called("stop", NoConn, FALSE, "none")
    /\ UNCHANGED <<_started, _stop_signal, clients, _epoll, _accept_queue,
                   _stop_events, client_callback, _server_socket, sock, cur, events,
                   diter, sender>>

AppRegister(c, silent) ==
    /\ AppReady
    /\ _epoll' = register_set(clients, _epoll, c)
    /\ h' = [Called("register", c, silent, register_exc(clients, _epoll, c, silent))
                EXCEPT !.registered = @ \cup {c}]
    /\ UNCHANGED <<_started, _stop_signal, clients, _accept_queue, _stop_events,
                   client_callback, _server_socket, sock, pc, cur, events, diter,
                   ret, sender>>

AppUnregister(c, silent) ==
    /\ AppReady
    /\ _epoll' = unregister_set(_epoll, c)
    /\ h' = Called("unregister", c, silent, unregister_exc(_epoll, c, silent))
    /\ UNCHANGED <<_started, _stop_signal, clients, _accept_queue, _stop_events,
                   client_callback, _server_socket, sock, pc, cur, events, diter,
                   ret, sender>>

\* disconnect(conn): self.unregister(client, silent=True)
AppDisconnect(c) ==
    /\ AppReady
    /\ LET exc == unregister_exc(_epoll, c, TRUE) IN
       /\ h' = Called("disconnect", c, FALSE, exc)
       /\ _epoll' = unregister_set(_epoll, c)
       /\ IF exc = "none"
          THEN /\ pc' = [pc EXCEPT ![T_app] = "d_close"]
               /\ cur' = [cur EXCEPT ![T_app] = c]
          ELSE UNCHANGED <<pc, cur>>
    /\ UNCHANGED <<_started, _stop_signal, clients, _accept_queue, _stop_events,
                   client_callback, _server_socket, sock, events, diter, ret,
                   sender>>

\* client.shutdown(socket.SHUT_RDWR), its error passed over; client.close();
\* then on_disconnect or on_abnormal_disconnect unless silent, inline: the
\* default hooks, which do nothing
DisconnectClose ==
    /\ pc[T_app] = "d_close"
    /\ sock' = [sock EXCEPT ![cur[T_app]].st = "closed"]
    /\ pc' = [pc EXCEPT ![T_app] = "d_del"]
    /\ UNCHANGED <<_started, _stop_signal, clients, _epoll, _accept_queue,
                   _stop_events, client_callback, _server_socket, cur, events,
                   diter, ret, h, sender>>

\* del self.clients[conn]
DisconnectDel ==
    /\ pc[T_app] = "d_del"
    /\ clients' = clients \ {cur[T_app]}
    /\ h' = [h EXCEPT !.last.exc = IF cur[T_app] \in clients THEN @ ELSE "KeyError"]
    /\ pc' = [pc EXCEPT ![T_app] = "idle"]
    /\ cur' = [cur EXCEPT ![T_app] = NoConn]
    /\ UNCHANGED <<_started, _stop_signal, _epoll, _accept_queue, _stop_events,
                   client_callback, _server_socket, sock, events, diter, ret,
                   sender>>

\* ------------------------------------------- hooks that call stop()
\* on_connect, inline in _handle_connects: the application's hook calls
\* self.stop(); when stop() returns the hook returns to the loop
OnConnectStop ==
    /\ pc[T_handle_connects] = "on_connect"
    /\ pc' = [pc EXCEPT ![T_handle_connects] = "stop"]
    /\ ret' = [ret EXCEPT ![T_handle_connects] = "loop"]
    /\ h' = [h EXCEPT !.on_connect = Append(@, cur[T_handle_connects])]
    /\ cur' = [cur EXCEPT ![T_handle_connects] = NoConn]
    /\ UNCHANGED <<_started, _stop_signal, clients, _epoll, _accept_queue,
                   _stop_events, client_callback, _server_socket, sock, events,
                   diter, sender>>

\* on_recv, inline in recv (which runs on a transient thread, or inline in
\* _recv): the application's hook calls self.stop(); when stop() returns the hook
\* and recv return
OnRecvStop(t) ==
    /\ pc[t] = "on_recv"
    /\ pc' = [pc EXCEPT ![t] = "stop"]
    /\ ret' = [ret EXCEPT ![t] = IF t = T_recv THEN AfterEvent(events) ELSE "idle"]
    /\ h' = [h EXCEPT !.on_recv = @ \cup {cur[t]}]
    /\ cur' = [cur EXCEPT ![t] = NoConn]
    /\ UNCHANGED <<_started, _stop_signal, clients, _epoll, _accept_queue,
                   _stop_events, client_callback, _server_socket, sock, events,
                   diter, sender>>

\* --------------------------------------------------------------- the run
Callers == Threads

\* _accept and _handle_connects at work.
Admission ==
    \/ AcceptConn
    \/ HandleConnectsGet
    \/ HandleConnectsAdmit
    \/ OnConnect

\* The stages leave their loops, and stop() runs in the thread that called it.
Stopping ==
    \/ \E s \in Stages : StageExit(s)
    \/ \E s \in Stages : StageFinally(s)
    \/ \E t \in Callers : StopBegin(t)
    \/ \E t \in Callers : DisconnectAllNext(t)
    \/ \E t \in Callers : DisconnectAllClose(t)
    \/ \E t \in Callers : DisconnectAllClear(t)
    \/ \E t \in Callers : StopWait(t)
    \/ \E t \in Callers : StopShutdown(t)
    \/ \E t \in Callers : StopClose(t)

\* The engine: the three stages, the receive callbacks, a stage's own stop().
Engine ==
    \/ Admission
    \/ RecvLoop
    \/ RecvSelect
    \/ \E c \in Conns : RecvDispatch(c)
    \/ \E t \in Receivers : RecvRaw(t)
    \/ \E t \in Receivers : OnRecv(t)
    \/ \E t \in Receivers : RecvReturn(t)
    \/ Stopping

Peers ==
    \/ \E c \in Conns : PeerSend(c)
    \/ \E c \in Conns, how \in {"eof", "err"} : PeerClose(c, how)

\* The application sets the policy, starts the server and then arms, disarms and
\* disconnects the connections it was given.
Next ==
    \/ Start
    \/ \E b \in BOOLEAN : ~_started /\ RunInSubthread(b)
    \/ \E c \in Known, silent \in BOOLEAN : AppRegister(c, silent)
    \/ \E c \in Known, silent \in BOOLEAN : AppUnregister(c, silent)
    \/ \E c \in Known : AppDisconnect(c)
    \/ DisconnectClose
    \/ DisconnectDel
    \/ Engine
    \/ Peers

\* The application starts and stops the server, and accept() may fail.
NextLife ==
    \/ Start
    \/ \E b \in BOOLEAN : ~_started /\ RunInSubthread(b)
    \/ AppStop
    \/ AcceptError
    \/ Engine
    \/ Peers

Spec == Init /\ [][Next]_vars

SpecLife == Init /\ [][NextLife]_vars

\* Admission with several peers: the application starts the server and stops
\* it, and accept() may fail.
InitAdmit == Constructed(1..AdmitConns, {})

NextAdmit ==
    \/ Start
    \/ AppStop
    \/ AcceptError
    \/ Admission
    \/ Stopping

SpecAdmit == InitAdmit /\ [][NextAdmit]_vars

\* The application starts the server and stops it, from its own thread or from
\* its on_connect and on_recv hooks.
NextHook ==
    \/ Start
    \/ \E b \in BOOLEAN : ~_started /\ RunInSubthread(b)
    \/ AppStop
    \/ OnConnectStop
    \/ \E t \in Receivers : OnRecvStop(t)
    \/ Engine
    \/ Peers

\* What thread t can do next, whatever the other threads do.
Runs(t) ==
    \/ t = T_accept /\ AcceptConn
    \/ t = T_handle_connects
          /\ (HandleConnectsGet \/ HandleConnectsAdmit \/ OnConnect \/ OnConnectStop)
    \/ t = T_recv /\ (RecvLoop \/ RecvSelect \/ \E c \in Conns : RecvDispatch(c))
    \/ t \in Receivers /\ (RecvRaw(t) \/ OnRecv(t) \/ OnRecvStop(t) \/ RecvReturn(t))
    \/ t \in Stages /\ (StageExit(t) \/ StageFinally(t))
    \/ StopBegin(t) \/ DisconnectAllNext(t) \/ DisconnectAllClose(t)
    \/ DisconnectAllClear(t) \/ StopWait(t) \/ StopShutdown(t) \/ StopClose(t)

\* The scheduler of the threads: a thread that can run is run in the end.
Fairness == \A t \in 0..(3 + NumWorkers) : WF_vars(Runs(t))

SpecHook == Init /\ [][NextHook]_vars /\ Fairness

\* --------------------------------------------------------------- send_raw
Senders == DOMAIN sends

\* The payload of caller i: bytes no other caller sends.
Payload(i) == [k \in 1..PayloadLen |-> 10 * i + k]

\* A send_raw that never takes the lock.
CanAcquireUnlocked(lock, block) == TRUE

\* if block: client.send_lock.acquire() can go on. send_lock is an attribute of
\* the class _ClientInfo: one lock, whatever the connection.
CanAcquire(lock, block) == ~block \/ lock = 0

\* client = self.clients[conn]; if block: client.send_lock.acquire()
SendAcquire(i) ==
    /\ sends[i].st = "call"
    /\ IF sends[i].conn \notin clients
       THEN /\ sends' = [sends EXCEPT ![i].st = "raised"]
            /\ UNCHANGED <<send_lock, lock_order>>
       ELSE /\ CanAcquire(send_lock, sends[i].block)
            /\ send_lock' = IF sends[i].block THEN i ELSE send_lock
            /\ lock_order' = IF sends[i].block THEN Append(lock_order, i)
                                                ELSE lock_order
            /\ sends' = [sends EXCEPT ![i].st = "sending"]
    /\ UNCHANGED <<wire, engine>>

\* The lock once send_raw's finally clause has run.
Released(lock, i) == IF sends[i].block THEN 0 ELSE lock

\* One turn of while total_sent < to_send: conn.send(data[total_sent:]) sends
\* k bytes; after the last turn the finally clause releases the lock
SendChunk(i, k) ==
    /\ sends[i].st = "sending"
    /\ k \in 1..(Len(sends[i].data) - sends[i].sent)
    /\ wire' = [wire EXCEPT ![sends[i].conn] =
                   @ \o SubSeq(sends[i].data, sends[i].sent + 1, sends[i].sent + k)]
    /\ IF sends[i].sent + k = Len(sends[i].data)
       THEN /\ sends' = [sends EXCEPT ![i].sent = @ + k, ![i].st = "done"]
            /\ send_lock' = Released(send_lock, i)
       ELSE /\ sends' = [sends EXCEPT ![i].sent = @ + k]
            /\ send_lock' = send_lock
    /\ UNCHANGED <<lock_order, engine>>

\* conn.send returns 0 (ClientAbnormalDisconnect is raised) or raises itself: the
\* finally clause releases the lock and the error leaves send_raw
SendFail(i) ==
    /\ sends[i].st = "sending"
    /\ sends' = [sends EXCEPT ![i].st = "raised"]
    /\ send_lock' = Released(send_lock, i)
    /\ UNCHANGED <<wire, lock_order, engine>>

\* A started server that has admitted its connections, and callers of send_raw
\* about to write their payloads to them.
InitSend ==
    /\ _started = TRUE
    /\ _stop_signal = FALSE
    /\ clients = 1..SendConns
    /\ _epoll = {}
    /\ _accept_queue = <<>>
    /\ _stop_events = [s \in Stages |-> FALSE]
    /\ client_callback = TRUE
    /\ _server_socket = "listening"
    /\ sock = [c \in 1..SendConns |-> [st |-> "open", input |-> "none"]]
    /\ pc = [t \in {T_app} \cup Stages |-> IF t \in Stages THEN "loop" ELSE "idle"]
    /\ cur = [t \in {T_app} \cup Stages |-> NoConn]
    /\ events = {}
    /\ diter = [t \in {T_app} \cup Stages |-> [pos |-> 0, size |-> 0]]
    /\ ret = [t \in {T_app} \cup Stages |-> "idle"]
    /\ send_lock = 0
    /\ \E cs \in [1..NumSenders -> 1..SendConns], bs \in [1..NumSenders -> BOOLEAN] :
          sends = [i \in 1..NumSenders |->
                      [conn |-> cs[i], data |-> Payload(i), block |-> bs[i],
                       sent |-> 0, st |-> "call"]]
    /\ wire = [c \in 1..SendConns |-> <<>>]
    /\ lock_order = <<>>
    /\ h = [ops |-> 1, sent |-> 0, faults |-> 0,
            on_start |-> 1, launched |-> 3,
            admitted |-> [c \in 1..SendConns |-> c], registered |-> {}, on_recv |-> {},
            on_disconnect |-> [c \in 1..SendConns |-> 0],
            on_abnormal_disconnect |-> [c \in 1..SendConns |-> 0],
            on_connect |-> [c \in 1..SendConns |-> c],
            on_stop |-> <<>>, closes |-> 0,
            fault |-> [s \in Stages |-> "none"],
            stop |-> [t \in {T_app} \cup Stages |-> "none"],
            last |-> [op |-> "start", conn |-> NoConn, silent |-> FALSE, exc |-> "none"]]

NextSend ==
    \/ \E i \in Senders : SendAcquire(i)
    \/ \E i \in Senders, k \in 1..PayloadLen : SendChunk(i, k)
    \/ \E i \in Senders : SendFail(i)

SpecSend == InitSend /\ [][NextSend]_vars

\* ================================================================= claims
AllStagesDone == \A s \in Stages : _stop_events[s]

\* C1 (as claimed): at most one invocation of a connection's bound receive
\* callback is executing at any time.
C1_OneDispatchPerConnection ==
    \A c \in Conns : Cardinality(InFlight(c)) <= 1

\* C2: on_recv(C, data) is invoked only for a connection for which register(C)
\* was called earlier; admission alone never leads to it.
C2_NoRecvWithoutRegister == h.on_recv \subseteq h.registered

\* C2, its case: an admitted connection whose data is readable, never registered,
\* while the dispatch loop polls.
C2_Witness ==
    \E c \in clients :
        /\ sock[c].input = "data"
        /\ c \notin h.registered
        /\ pc[T_recv] = "select"

\* C3 (as claimed): once a receive dispatch of C has read zero bytes and fired
\* on_disconnect(C), C is not in the client registry.
C3_ZeroReadRemoves ==
    \A c \in Conns : h.on_disconnect[c] >= 1 => c \notin clients

\* C4: a stop() that has passed its waits, has closed the listening socket, has
\* fired on_stop or has returned, does so with all three completion events set.
C4_StopAfterStages ==
    /\ \A t \in DOMAIN ret :
          (pc[t] \in {"stop_shutdown", "stop_close"} \/ h.stop[t] = "returned")
              => AllStagesDone
    /\ (h.on_stop # <<>> \/ _server_socket \in {"shutdown", "closed"})
          => AllStagesDone

\* C4, its case: the application's stop() has returned and on_stop has fired.
C4_Witness == h.stop[T_app] = "returned" /\ h.on_stop # <<>>

\* C5 (as claimed): a stage that left its loop by an error with the stop flag not
\* set has, once all three stage threads have ended (so that no stop() is still
\* under way) and with no stop() call of the application, left the server fully
\* stopped: flag set, three events set, on_stop fired with a non-empty reason.
C5_FaultStopsServer ==
    \A s \in Stages :
        (/\ h.fault[s] # "none"
         /\ \A u \in Stages : pc[u] = "dead"
         /\ h.stop[T_app] = "none")
        => /\ _stop_signal
           /\ AllStagesDone
           /\ \E i \in 1..Len(h.on_stop) : h.on_stop[i] # ""

\* What the callers have written to c, one caller after the other in the order
\* they took the lock.
RECURSIVE InLockOrder(_, _)
InLockOrder(c, order) ==
    IF order = <<>> THEN <<>>
    ELSE (IF sends[Head(order)].conn = c
          THEN SubSeq(sends[Head(order)].data, 1, sends[Head(order)].sent)
          ELSE <<>>) \o InLockOrder(c, Tail(order))

\* C6: on a connection whose callers all use block=True, the bytes written are at
\* any time the callers' payloads one after the other in the order the lock was
\* acquired (whole ones, then what the holder has sent so far): two complete
\* sends give d1 d2 or d2 d1, and no chunks interleave.
C6_SendsDoNotInterleave ==
    \A c \in Conns :
        (\A i \in Senders : sends[i].conn = c => sends[i].block)
            => wire[c] = InLockOrder(c, lock_order)

\* C6, its case: two blocking sends to the same connection have both completed.
C6_Witness ==
    \E i, j \in Senders :
        /\ i # j
        /\ sends[i].conn = sends[j].conn
        /\ sends[i].block /\ sends[j].block
        /\ sends[i].st = "done" /\ sends[j].st = "done"
        /\ wire[sends[i].conn] = sends[i].data \o sends[j].data

\* C7: a start() on a started server raises, launches no thread and fires no
\* on_start; a stop() on a server never started raises and leaves the stop flag,
\* the registry and on_stop as they were.
C7_UsageErrorsHaveNoEffect ==
    [][/\ (h'.ops = h.ops + 1 /\ h'.last.op = "start" /\ _started)
            => /\ h'.last.exc = "OSError"
               /\ h'.on_start = h.on_start
               /\ h'.launched = h.launched
               /\ UNCHANGED <<pc, _server_socket>>
       /\ (pc[T_app] = "stop" /\ pc'[T_app] # "stop" /\ ~_started)
            => /\ h'.last.exc = "OSError"
               /\ h'.on_stop = h.on_stop
               /\ UNCHANGED <<_stop_signal, clients>>]_vars

\* C7, its case: a stop() before start() has raised, and a second start() has
\* raised.
C7_Witness ==
    /\ h.stop[T_app] = "raised"
    /\ h.last.op = "start"
    /\ h.last.exc = "OSError"
    /\ h.on_start = 1

\* C8 (as claimed): with silent=True register and unregister never raise, in any
\* state of the watch set and the registry, and a second call in a row leaves
\* the watch set the first call left.
C8_SilentNeverRaises ==
    /\ (h.last.op \in {"register", "unregister"} /\ h.last.silent)
          => h.last.exc = "none"
    /\ \A c \in Known :
          /\ register_set(clients, register_set(clients, _epoll, c), c)
                = register_set(clients, _epoll, c)
          /\ unregister_set(unregister_set(_epoll, c), c) = unregister_set(_epoll, c)

\* C9 (as claimed): without silent, register(C) of a connection in the watch set
\* raises the duplicate-registration KeyError, unregister(C) of one not in it
\* raises the not-registered KeyError, and neither changes watch set or registry.
C9_UsageErrorsRaise ==
    [][\A c \in Conns :
          /\ (h'.ops = h.ops + 1 /\ h'.last.conn = c /\ ~h'.last.silent
                /\ h'.last.op = "register" /\ c \in _epoll)
                => (h'.last.exc = "KeyError" /\ UNCHANGED <<_epoll, clients>>)
          /\ (h'.ops = h.ops + 1 /\ h'.last.conn = c /\ ~h'.last.silent
                /\ h'.last.op = "unregister" /\ c \notin _epoll)
                => (h'.last.exc = "KeyError" /\ UNCHANGED <<_epoll, clients>>)]_vars

\* C10 (as claimed): under the inline receive-dispatch policy no outcome of the
\* receive attempt makes recv raise into _recv and end the stage.
C10_RecvReturnsNormally ==
    ~client_callback => h.fault[T_recv] \notin {"WouldBlock", "TypeError"}

\* No stop() is under way, and no stage thread is left that could call one.
StopsOver ==
    /\ \A u \in Stages : pc[u] = "dead"
    /\ pc[T_app] = "idle"
    /\ \A t \in DOMAIN ret : h.stop[t] # "running"

\* C11 (as claimed): a started server is stopped exactly once: the listening
\* socket is never closed twice and on_stop never fired twice, and once the
\* stop() calls and self-shutdowns of a run are over, the socket has been
\* closed once and on_stop fired once.
C11_StoppedExactlyOnce ==
    /\ h.closes <= 1
    /\ Len(h.on_stop) <= 1
    /\ (_stop_signal /\ StopsOver) => (h.closes = 1 /\ Len(h.on_stop) = 1)

\* The half of C11 that two racing stop() calls could break.
C11_AtMostOnce == h.closes <= 1 /\ Len(h.on_stop) <= 1

\* C12 (as claimed), in the form a finite run refutes: a stop() returns in the
\* end only if the thread that waits in it for the three completion events is
\* never a stage thread whose own event is not set, for that event is set by
\* nothing but the finally clause of the loop the waiting thread is inside.
C12_StopNeverWaitsForItself ==
    \A s \in Stages : pc[s] = "stop_wait" => _stop_events[s]

\* C12, as a property of the fair runs: a stop() that any thread has begun on a
\* started server returns in the end, and once the stop flag is set the three
\* stage loops end and signal it.
C12_StopReturns ==
    /\ \A t \in 0..(3 + NumWorkers) :
          (h.stop[t] = "running") ~> (h.stop[t] = "returned")
    /\ _stop_signal ~> AllStagesDone

\* C13 (as claimed): a connection in the watch set has no receive callback
\* running for it.
C13_ArmedNotInFlight ==
    \A c \in _epoll : InFlight(c) = {}

\* C14 (as claimed): the step in which recv makes its one receive attempt goes on
\* to exactly the hook of the outcome: data, on_recv; a clean disconnect, one
\* on_disconnect; an abnormal disconnect, one on_abnormal_disconnect; would-block,
\* no hook.
C14_HookMatchesOutcome ==
    [][\A t \in Receivers :
          (pc[t] = "recv_raw" /\ pc'[t] # "recv_raw") =>
             LET c == cur[t]
                 outcome == recv_raw(c)
                 disconnects == h'.on_disconnect[c] - h.on_disconnect[c]
                 abnormals == h'.on_abnormal_disconnect[c]
                                 - h.on_abnormal_disconnect[c] IN
             CASE outcome = "data" ->
                    pc'[t] = "on_recv" /\ disconnects = 0 /\ abnormals = 0
               [] outcome = "ClientDisconnect" ->
                    pc'[t] # "on_recv" /\ disconnects = 1 /\ abnormals = 0
               [] outcome = "ClientAbnormalDisconnect" ->
                    pc'[t] # "on_recv" /\ disconnects = 0 /\ abnormals = 1
               [] OTHER ->
                    pc'[t] # "on_recv" /\ disconnects = 0 /\ abnormals = 0]_vars

\* The connections accepted so far, in the order of their acceptance.
Accepted == [i \in 1..Cardinality({c \in Conns : sock[c].st # "unborn"}) |-> i]

\* The connection _handle_connects has taken off the queue and not yet admitted.
InHand ==
    IF pc[T_handle_connects] = "admit" THEN <<cur[T_handle_connects]>> ELSE <<>>

\* C15: the connections admitted are the first ones accepted, each once and in
\* the order of acceptance; on_connect has fired once for each of them, but for
\* the one whose hook is being called; and while the stop flag is not set every
\* accepted connection is admitted, in the hand of the admission stage, or
\* waits in the queue in its turn.
C15_AdmittedOnceInOrder ==
    /\ h.admitted = SubSeq(Accepted, 1, Len(h.admitted))
    /\ h.on_connect = SubSeq(h.admitted, 1, Len(h.on_connect))
    /\ Len(h.admitted) - Len(h.on_connect)
          = IF pc[T_handle_connects] = "on_connect" THEN 1 ELSE 0
    /\ Cardinality(clients) <= Len(h.admitted)
    /\ ~_stop_signal => Accepted = h.admitted \o InHand \o _accept_queue

\* C15, its case: two accepted connections are both admitted and their hooks
\* called, the server not stopping.
C15_Witness ==
    /\ ~_stop_signal
    /\ h.on_connect = <<1, 2>>
    /\ clients = {1, 2}

\* C16 (as claimed): a caller of send_raw(B, ..., block=True) gets the lock and
\* goes on whenever no blocking send to the same connection B is in progress,
\* whatever is being sent to other connections.
C16_LockPerConnection ==
    \A j \in Senders :
        (/\ sends[j].st = "call"
         /\ sends[j].block
         /\ sends[j].conn \in clients
         /\ \A i \in Senders \ {j} :
               ~(sends[i].st = "sending" /\ sends[i].block
                    /\ sends[i].conn = sends[j].conn))
        => CanAcquire(send_lock, sends[j].block)

\* C17 (as claimed): no connection in the client registry has a socket that
\* the engine has closed.
C17_RegistryHoldsNoClosed ==
    \A c \in clients : ~IsClosed(c)

\* The connections that wait in the admission queue.
Queued == {_accept_queue[i] : i \in 1..Len(_accept_queue)}

\* C18 (as claimed), for the connections the admission stage has taken off its
\* queue: once a stop() has returned the client registry is empty and none of
\* these connections is open.
C18_StoppedLeavesNothing ==
    (\E t \in DOMAIN ret : h.stop[t] = "returned")
        => /\ clients = {}
           /\ \A c \in Conns \ Queued : sock[c].st # "open"

\* C19 (as claimed): with no stop under way, the step in which _recv takes an
\* event that select() gave it and unregisters the connection never ends the
\* loop, whatever the application has unregistered or disconnected since
\* select() returned.
C19_DispatchSurvives ==
    [][(pc[T_recv] = "events" /\ ~_stop_signal) => pc'[T_recv] # "finally"]_vars

\* C20 (as claimed): every connection in the watch set is in the client
\* registry.
C20_WatchSetInRegistry == _epoll \subseteq clients

====
